---- MODULE Spec2Model ----
(***************************************************************************)
(* Model of venantvr.tools.caching:                                        *)
(*   - the durable store, dynamic_cache_to_json / dynamic_cache_to_pickle  *)
(*     (a wrapper that resolves a directory template against the owner's   *)
(*     __dict__, creates the directory, and loads or computes-and-dumps);  *)
(*   - the count-based memo, cache_for_n_calls.                            *)
(* Python values, JSON documents, pickled payloads, strings and paths are  *)
(* modelled structurally, so that formatting, path parsing and the two     *)
(* codecs are computed as the library computes them.                       *)
(***************************************************************************)
EXTENDS Integers, Sequences, FiniteSets, TLC

\* ------------------------------------------------------------------ bounds

\* Calls made through the durable wrapper in one behaviour.
MaxCalls == 3
\* Assignments to owner attributes between calls in one behaviour.
MaxSetAttr == 1
\* Calls made through the cache_for_n_calls wrapper in one behaviour.
MaxMemoCalls == 7

\* ------------------------------------------------------------ Python values
\* A Python value is a tagged tuple.  Lists, tuples and dicts hold values;
\* a dict is a sequence of <<key, value>> pairs in insertion order.  An
\* "instance" is an object of a class without __eq__ (equal only to itself):
\* its second component is its identity.  A "function" stands for a value
\* neither codec can encode (a lambda, an open file, a generator).

PyNone == <<"None">>
PyInt(i) == <<"int", i>>
PyBool(b) == <<"bool", b>>
PyStr(s) == <<"str", s>>
PyList(xs) == <<"list", xs>>
PyTuple(xs) == <<"tuple", xs>>
PyDict(kvs) == <<"dict", kvs>>
PyInstance(id) == <<"instance", id>>
PyFunction == <<"function">>

\* What the wrapped operation may return (before identities are assigned).
\* The six falsy values, a JSON-native dict, and values outside the JSON data
\* model: a tuple, a dict with an integer key, a list holding a tuple, an
\* instance, a function.
FalsyValues ==
    { PyNone, PyInt(0), PyBool(FALSE), PyStr(""), PyList(<<>>), PyDict(<<>>) }

ResultShapes ==
    FalsyValues \cup
    { PyDict(<< <<PyStr("price"), PyInt(100)>> >>),
      PyTuple(<<PyInt(1), PyInt(2)>>),
      PyDict(<< <<PyInt(1), PyStr("a")>> >>),
      PyInstance(0),
      PyFunction }

\* The operation builds its result anew on each call: an instance returned by
\* the call numbered k has an identity of its own.
OpIdentity(k) == 2 * k
LoadIdentity(k) == 2 * k + 1

Materialize(shape, id) ==
    IF shape[1] = "instance" THEN PyInstance(id) ELSE shape

\* --------------------------------------------------------------- JSON codec
\* json.dump: None -> null, bool -> true/false, int -> number, str -> string,
\* list AND tuple -> array, dict -> object whose keys are turned into strings
\* (str as is, int in decimal, bool as "true"/"false", None as "null").  Any
\* other value, or any other kind of key, raises TypeError.

JNull == <<"null">>
JNumber(i) == <<"number", i>>
JBool(b) == <<"boolean", b>>
JString(s) == <<"string", s>>
JArray(xs) == <<"array", xs>>
JObject(kvs) == <<"object", kvs>>

Digit(d) ==
    CASE d = 0 -> "0" [] d = 1 -> "1" [] d = 2 -> "2" [] d = 3 -> "3"
      [] d = 4 -> "4" [] d = 5 -> "5" [] d = 6 -> "6" [] d = 7 -> "7"
      [] d = 8 -> "8" [] d = 9 -> "9"

RECURSIVE NatText(_)
NatText(i) == IF i < 10 THEN Digit(i) ELSE NatText(i \div 10) \o Digit(i % 10)

IntText(i) == IF i < 0 THEN "-" \o NatText(0 - i) ELSE NatText(i)

JsonKeyAllowed(k) == k[1] \in {"str", "int", "bool", "None"}

JsonKeyText(k) ==
    CASE k[1] = "str" -> k[2]
      [] k[1] = "int" -> IntText(k[2])
      [] k[1] = "bool" -> (IF k[2] THEN "true" ELSE "false")
      [] k[1] = "None" -> "null"

RECURSIVE JsonSerializable(_)
JsonSerializable(v) ==
    CASE v[1] \in {"None", "int", "bool", "str"} -> TRUE
      [] v[1] \in {"list", "tuple"} ->
            \A i \in DOMAIN v[2] : JsonSerializable(v[2][i])
      [] v[1] = "dict" ->
            \A i \in DOMAIN v[2] :
                JsonKeyAllowed(v[2][i][1]) /\ JsonSerializable(v[2][i][2])
      [] OTHER -> FALSE

RECURSIVE JsonEncode(_)

\* A dump that writes the name of the value's type as one JSON string.
JsonEncodeAsText(v) == JString(v[1])

JsonEncode(v) ==
    CASE v[1] = "None" -> JNull
      [] v[1] = "int" -> JNumber(v[2])
      [] v[1] = "bool" -> JBool(v[2])
      [] v[1] = "str" -> JString(v[2])
      [] v[1] \in {"list", "tuple"} ->
            JArray([i \in DOMAIN v[2] |-> JsonEncode(v[2][i])])
      [] v[1] = "dict" ->
            JObject([i \in DOMAIN v[2] |->
                        <<JsonKeyText(v[2][i][1]), JsonEncode(v[2][i][2])>>])

\* json.load: the inverse on the JSON data model; arrays become lists and
\* object keys stay strings.
RECURSIVE JsonDecode(_)
\* A decoder that builds tuples, not lists, from arrays.
JsonDecodeArraysAsTuples(d) ==
    CASE d[1] = "null" -> PyNone
      [] d[1] = "number" -> PyInt(d[2])
      [] d[1] = "boolean" -> PyBool(d[2])
      [] d[1] = "string" -> PyStr(d[2])
      [] d[1] = "array" ->
            PyTuple([i \in DOMAIN d[2] |-> JsonDecode(d[2][i])])
      [] d[1] = "object" ->
            PyDict([i \in DOMAIN d[2] |->
                        <<PyStr(d[2][i][1]), JsonDecode(d[2][i][2])>>])

JsonDecode(d) ==
    CASE d[1] = "null" -> PyNone
      [] d[1] = "number" -> PyInt(d[2])
      [] d[1] = "boolean" -> PyBool(d[2])
      [] d[1] = "string" -> PyStr(d[2])
      [] d[1] = "array" ->
            PyList([i \in DOMAIN d[2] |-> JsonDecode(d[2][i])])
      [] d[1] = "object" ->
            PyDict([i \in DOMAIN d[2] |->
                        <<PyStr(d[2][i][1]), JsonDecode(d[2][i][2])>>])

\* ------------------------------------------------------------- pickle codec
\* pickle.dump stores the object graph; an instance is stored as its class
\* and state, without its identity, and pickle.load builds a new object.  A
\* function (lambda), like an open file or a generator, cannot be pickled.

RECURSIVE Picklable(_)
Picklable(v) ==
    CASE v[1] \in {"None", "int", "bool", "str", "instance"} -> TRUE
      [] v[1] \in {"list", "tuple"} ->
            \A i \in DOMAIN v[2] : Picklable(v[2][i])
      [] v[1] = "dict" ->
            \A i \in DOMAIN v[2] :
                Picklable(v[2][i][1]) /\ Picklable(v[2][i][2])
      [] OTHER -> FALSE

\* Identities are assigned at the top level only: ResultShapes holds no
\* instance inside a container.
PickleEncode(v) == IF v[1] = "instance" THEN PyInstance(0) ELSE v

PickleDecode(payload, id) == Materialize(payload, id)

\* ------------------------------------------------------------ file contents
\* A file holds a JSON document, a pickle payload, or text cut short: what
\* open(path, 'w') followed by a dump that raised leaves behind (empty, or the
\* chunks written before the error).  Neither decoder accepts cut text.

JsonFile(doc) == <<"json", doc>>
PickleFile(payload) == <<"pickle", payload>>
TruncatedFile == <<"truncated">>

Exc(name) == <<"exception", name>>

\* ------------------------------------------------- strings, templates, paths
\* Attribute values and directory templates are sequences of characters, so
\* that str.format is concatenation and pathlib's parsing is a split on "/".

Sep == "/"

\* Attribute values an owner may carry: three plain names and two values that
\* hold a path separator (a market symbol such as "BTC/USDT" is one).
AttrB == <<"b">>
AttrC == <<"c">>
AttrV == <<"v">>
AttrBC == <<"b", "/", "c">>
AttrCV == <<"c", "/", "v">>
AttrNames == {"exchange_name", "api_version", "market_type"}

Owners == {"o1", "o2"}

\* The values the program assigns to each attribute.
ValuesOf(name) ==
    CASE name = "exchange_name" -> {AttrB, AttrC, AttrBC}
      [] name = "api_version" -> {AttrV, AttrCV}
      [] name = "market_type" -> {AttrV}

\* The two owners' __dict__ after construction: two exchanges with one API
\* version (test_multiple_cache_instances), twice the same exchange, and
\* two owners with a separator in their values.
DictBV == [exchange_name |-> AttrB, api_version |-> AttrV]
DictCV == [exchange_name |-> AttrC, api_version |-> AttrV]
DictBCV == [exchange_name |-> AttrBC, api_version |-> AttrV]
DictBCv == [exchange_name |-> AttrB, api_version |-> AttrCV]
InitialAttrs ==
    { [o \in Owners |-> IF o = "o1" THEN DictBV ELSE DictCV],
      [o \in Owners |-> DictBV],
      [o \in Owners |-> IF o = "o1" THEN DictBCV ELSE DictBCv] }

\* A template is a sequence of literal texts and replacement fields.
Lit(text) == <<"lit", text>>
Field(name) == <<"field", name>>

\* "r/{exchange_name}/{api_version}/" and "r/{exchange_name}/{market_type}/"
TemplateVersion ==
    << Lit(<<"r", "/">>), Field("exchange_name"), Lit(<<"/">>),
       Field("api_version"), Lit(<<"/">>) >>
TemplateMarket ==
    << Lit(<<"r", "/">>), Field("exchange_name"), Lit(<<"/">>),
       Field("market_type"), Lit(<<"/">>) >>
Templates == {TemplateVersion, TemplateMarket}

TemplateFields(t) == { t[i][2] : i \in { j \in DOMAIN t : t[j][1] = "field" } }

\* template_dir.format(**self.__dict__) raises KeyError for a field that is
\* not a key of the mapping.
FormatRaises(t, mapping) == \E f \in TemplateFields(t) : f \notin DOMAIN mapping

RECURSIVE Format(_, _)
Format(t, mapping) ==
    IF t = <<>> THEN <<>>
    ELSE (IF Head(t)[1] = "lit" THEN Head(t)[2] ELSE mapping[Head(t)[2]])
             \o Format(Tail(t), mapping)

\* pathlib.Path(text): the components between separators; empty components
\* (doubled or trailing separators) are dropped.
RECURSIVE SplitPath(_, _, _)
SplitPath(text, cur, acc) ==
    IF text = <<>> THEN (IF cur = <<>> THEN acc ELSE Append(acc, cur))
    ELSE IF Head(text) = Sep
         THEN SplitPath(Tail(text), <<>>,
                        IF cur = <<>> THEN acc ELSE Append(acc, cur))
         ELSE SplitPath(Tail(text), Append(cur, Head(text)), acc)

Path(text) == SplitPath(text, <<>>, <<>>)

\* The name of the wrapped function, and the two decorators' extensions.
FuncName == "get_data"
Codecs == {"json", "pickle"}
Extension(codec) == IF codec = "json" THEN ".json" ELSE ".pickle"

\* A file name that ends in .json under either decorator.
CacheFilenameJsonAlways(codec) == <<FuncName, ".json">>

\* cache_filename = f"{func.__name__}.json" (or .pickle)
CacheFilename(codec) == <<FuncName, Extension(codec)>>

\* A directory that is the template's literal head, whatever the owner.
CacheDirShared(template, mapping) == Path(Head(template)[2])

\* A directory resolved once, from the attributes of the first owner built,
\* instead of at each call.
CacheDirResolvedOnce(template, mapping) ==
    Path(Format(template, [n \in AttrNames |-> AttrB]))

\* cache_dir = Path(template_dir.format(**self.__dict__))
CacheDir(template, mapping) == Path(Format(template, mapping))

\* cache_path = cache_dir / cache_filename
CachePath(template, codec, mapping) ==
    Append(CacheDir(template, mapping), CacheFilename(codec))

\* The filename a caller may pass as cache_filename=... (the tests do).
CustomFilename == <<"custom_data", ".json">>

\* ------------------------------------------------------- durable store state

VARIABLES
    attrs,        \* owner -> its __dict__ (attribute name -> text)
    setCount,     \* attribute assignments made so far
    deco,         \* the decorator call and what it produced
    dirs,         \* the directories that exist
    files,        \* path -> content, for the files that exist
    calls,        \* calls made through the wrapper
    last,         \* what the latest call did and how it ended
    populated,    \* path -> the call that first stored a result there
    invocations   \* path -> how often the operation ran for that path

durableVars ==
    <<attrs, setCount, deco, dirs, files, calls, last, populated, invocations>>

\* ---------------------------------------------------- cache_for_n_calls state

VARIABLES
    memo,          \* the cache_for_n_calls(n) call and the wrapper it built
    call_count,    \* the closure's call_count
    cached_result, \* the closure's cached_result
    memoCalls,     \* calls made through the wrapper
    memoInvoked,   \* runs of the wrapped operation that were started
    memoRaised,    \* whether a run of the wrapped operation has raised
    memoLast       \* how the latest call ended

memoVars ==
    <<memo, call_count, cached_result, memoCalls, memoInvoked, memoRaised,
      memoLast>>

\* ------------------------------------------- state of the other components

VARIABLES
    closures,      \* decorated function -> its closure (n, call_count, cached_result)
    closureCalls,  \* calls made through the wrappers of decorated methods
    closureLast,   \* how the latest of those calls ended
    handlers,      \* the handler list of the logger "runtime"
    logCalls,      \* calls of setup_logging / configure_stream made so far
    logLast,       \* how the latest of those calls ended
    threads,       \* caller -> where it stands in the wrapper, and its locals
    ghost,         \* what the concurrent callers have done so far
    external       \* path -> what was last done to it from outside, and when

classVars == <<closures, closureCalls, closureLast>>
logVars == <<handlers, logCalls, logLast>>
threadVars == <<threads, ghost>>
fsVars == <<external>>
otherVars == <<classVars, logVars, threadVars, fsVars>>

vars == <<durableVars, memoVars, otherVars>>

Args == {"BTC", "ETH"}

\* What one run of the wrapped operation does: return a value, or raise.
OpRaises == <<"raises">>
OpOutcomes == ResultShapes \cup {OpRaises}

\* An operation whose result names the owner it ran on, as get_exchange_info
\* of test_multiple_cache_instances does.
OwnResult(o) == PyDict(<< <<PyStr("owner"), PyStr(o)>> >>)

\* The record of a call: who called with what, the owner's __dict__ as the call
\* read it, the path it resolved, whether it returned or raised and what,
\* whether it was served from the file, the arguments the operation received
\* if it ran, and the directories ensured and files read and written.
NoCall ==
    [ owner |-> "", args |-> "", snapshot |-> <<>>, outcome |-> "none",
      value |-> PyNone, path |-> {}, hit |-> FALSE, opSelf |-> {},
      opArgs |-> {}, madeDirs |-> {}, read |-> {}, wrote |-> {} ]

NotDecorated ==
    [ state |-> "none", codec |-> "json", template |-> TemplateVersion,
      filenameArg |-> {} ]

InitDurable ==
    /\ setCount = 0
    /\ deco = NotDecorated
    /\ dirs = {}
    /\ files = <<>>
    /\ calls = 0
    /\ last = NoCall
    /\ populated = <<>>
    /\ invocations = <<>>

\* No method decorated with cache_for_n_calls yet, the logger "runtime" not
\* yet set up, no concurrent callers, nothing done to the files from outside.
NoClosureCall ==
    [ func |-> "", self |-> "", outcome |-> "none", value |-> PyNone,
      invoked |-> FALSE ]
NoLogCall == [ call |-> "none", path |-> <<>>, outcome |-> "none", before |-> <<>> ]
InitClass ==
    /\ closures = <<>>
    /\ closureCalls = 0
    /\ closureLast = NoClosureCall
InitLog ==
    /\ handlers = <<>>
    /\ logCalls = 0
    /\ logLast = NoLogCall
InitThreads ==
    /\ threads = <<>>
    /\ ghost = <<>>
InitOther == InitClass /\ InitLog /\ InitThreads /\ external = <<>>

\* dynamic_cache_to_json(template_dir) / dynamic_cache_to_pickle(template_dir)
\* take one parameter: a call that also passes cache_filename=... raises
\* TypeError (unexpected keyword argument) and no wrapper is built.
DecoratorAccepts(filenameArg) == filenameArg = {}

Decorate(codec, template, filenameArg) ==
    /\ deco.state = "none"
    /\ deco' = [ state |-> IF DecoratorAccepts(filenameArg)
                           THEN "wrapped" ELSE "TypeError",
                 codec |-> codec, template |-> template,
                 filenameArg |-> filenameArg ]
    /\ UNCHANGED <<attrs, setCount, dirs, files, calls, last, populated,
                   invocations>>
    /\ UNCHANGED <<memoVars, otherVars>>

\* An assignment self.<name> = <text> made by the program between two calls.
SetAttr(o, name, text) ==
    /\ setCount < MaxSetAttr
    /\ setCount' = setCount + 1
    /\ attrs' = [attrs EXCEPT ![o] =
                    [n \in DOMAIN attrs[o] \cup {name} |->
                        IF n = name THEN text ELSE attrs[o][n]]]
    /\ attrs'[o] # attrs[o]
    /\ UNCHANGED <<deco, dirs, files, calls, last, populated, invocations>>
    /\ UNCHANGED <<memoVars, otherVars>>

\* os.makedirs(cache_dir, exist_ok=True): every prefix of the path becomes a
\* directory; it raises when a prefix exists as a regular file.
Prefixes(path) == { SubSeq(path, 1, i) : i \in 1..Len(path) }

\* os.mkdir(cache_dir): the last component only.
MakedirsLeafOnly(dir) == dirs \cup {dir}

MakedirsRaises(dir) == \E q \in Prefixes(dir) : q \in DOMAIN files
Makedirs(dir) == dirs \cup Prefixes(dir)

\* An existence test that never finds the file.
ExistsNever(path) == FALSE

\* An existence test that takes a stored null for an absent entry, as the
\* fixed-path cache_to_json / cache_to_pickle do.
ExistsAndNotNull(path) ==
    /\ path \in DOMAIN files
    /\ files[path] \notin {JsonFile(JNull), PickleFile(PyNone)}

\* An existence test that takes an entry to have expired once two calls have
\* been made.
ExistsUntilThirdCall(path) ==
    (path \in DOMAIN files \/ path \in dirs) /\ calls < 2

\* An existence test that takes a file the codec cannot decode for an absent
\* entry.
ExistsDecodable(path) ==
    \/ path \in DOMAIN files /\ files[path][1] = deco.codec
    \/ path \in dirs

\* os.path.exists(cache_path)
Exists(path) == path \in DOMAIN files \/ path \in dirs

\* json.load(file) / pickle.load(file) on a file's content; the call numbered
\* k gives a loaded instance its identity.
LoadRaises(codec, content) == content[1] # codec
Load(codec, content, k) ==
    IF LoadRaises(codec, content)
    THEN Exc(IF codec = "json" THEN "JSONDecodeError" ELSE "UnpicklingError")
    ELSE IF codec = "json" THEN JsonDecode(content[2])
         ELSE PickleDecode(content[2], LoadIdentity(k))

\* json.dump(result, file) / pickle.dump(result, file) into a file just
\* opened for writing (created or emptied by open).
DumpRaises(codec, result) ==
    IF codec = "json" THEN ~JsonSerializable(result) ELSE ~Picklable(result)
Dump(codec, result) ==
    IF DumpRaises(codec, result) THEN TruncatedFile
    ELSE IF codec = "json" THEN JsonFile(JsonEncode(result))
         ELSE PickleFile(PickleEncode(result))
DumpError(codec) == Exc(IF codec = "json" THEN "TypeError" ELSE "PicklingError")

Put(f, key, val) == [k \in DOMAIN f \cup {key} |-> IF k = key THEN val ELSE f[k]]
Count(f, key) == IF key \in DOMAIN f THEN f[key] ELSE 0

\* The wrapper built by dynamic_cache_to_json / dynamic_cache_to_pickle,
\* called as owner.method(args); `outcome` is what the wrapped operation does
\* if this call runs it.
Raised(o, a, exc, path, made, rd) ==
    [ NoCall EXCEPT !.owner = o, !.args = a, !.snapshot = attrs[o],
                    !.outcome = "raise",
                    !.value = exc, !.path = path, !.madeDirs = made,
                    !.read = rd ]

\* A resolution failure that comes after the template's literal head has been
\* created as a directory.
ResolutionFailsAfterMakedirs(o, a) ==
    /\ last' = Raised(o, a, Exc("KeyError"), {}, {}, {})
    /\ dirs' = dirs \cup {Path(Head(deco.template)[2])}
    /\ UNCHANGED <<files, populated, invocations>>

\* template_dir.format(**self.__dict__) raises KeyError: the first statement
\* of the wrapper, so nothing else has happened.
ResolutionFails(o, a) ==
    /\ last' = Raised(o, a, Exc("KeyError"), {}, {}, {})
    /\ UNCHANGED <<dirs, files, populated, invocations>>

\* What is remembered of the call that first stored a result at a path.
Stored(o, a, result, k, runs) ==
    [ owner |-> o, args |-> a, snapshot |-> attrs[o], value |-> result,
      call |-> k, runs |-> runs ]

\* The files left by a wrapper that opens the cache file for writing before
\* it calls the operation, when the operation raises.
OpenedBeforeOperation(path) == Put(files, path, TruncatedFile)

\* The files when func(self, *args, **kwargs) raises: the call is made
\* before the cache file is opened for writing, so no file has been touched.
AfterOperationRaised(path) == files

Wrapper(o, a, outcome) ==
    /\ deco.state = "wrapped"
    /\ calls < MaxCalls
    /\ calls' = calls + 1
    /\ UNCHANGED <<attrs, setCount, deco>>
    /\ UNCHANGED <<memoVars, otherVars>>
    /\ IF FormatRaises(deco.template, attrs[o])
       THEN ResolutionFails(o, a)
       ELSE
       LET cache_dir == CacheDir(deco.template, attrs[o])
           cache_path == CachePath(deco.template, deco.codec, attrs[o])
           k == calls + 1
       IN  IF MakedirsRaises(cache_dir)
           THEN /\ last' = Raised(o, a, Exc("FileExistsError"), {cache_path},
                                  {}, {})
                /\ UNCHANGED <<dirs, files, populated, invocations>>
           ELSE
           /\ dirs' = Makedirs(cache_dir)
           /\ IF Exists(cache_path)
              THEN \* with open(cache_path) as file: return load(file)
                   /\ UNCHANGED <<files, populated, invocations>>
                   /\ IF cache_path \notin DOMAIN files
                      THEN last' = Raised(o, a, Exc("IsADirectoryError"),
                                          {cache_path}, Prefixes(cache_dir), {})
                      ELSE IF LoadRaises(deco.codec, files[cache_path])
                      THEN last' = Raised(o, a,
                                          Load(deco.codec, files[cache_path], k),
                                          {cache_path}, Prefixes(cache_dir),
                                          {cache_path})
                      ELSE last' =
                             [ NoCall EXCEPT
                                 !.owner = o, !.args = a,
                                 !.snapshot = attrs[o], !.outcome = "return",
                                 !.value = Load(deco.codec, files[cache_path], k),
                                 !.path = {cache_path}, !.hit = TRUE,
                                 !.madeDirs = Prefixes(cache_dir),
                                 !.read = {cache_path} ]
              ELSE \* result = func(self, *args, **kwargs)
                   /\ invocations' =
                          Put(invocations, cache_path,
                              Count(invocations, cache_path) + 1)
                   /\ IF outcome = OpRaises
                      THEN /\ last' =
                                [ Raised(o, a, Exc("OperationError"),
                                         {cache_path}, Prefixes(cache_dir), {})
                                  EXCEPT !.opSelf = {o}, !.opArgs = {a} ]
                           /\ files' = AfterOperationRaised(cache_path)
                           /\ UNCHANGED populated
                      ELSE
                      LET result == Materialize(outcome, OpIdentity(k))
                      IN  \* with open(cache_path, 'w') as file: dump(result, file)
                          /\ files' = Put(files, cache_path,
                                          Dump(deco.codec, result))
                          /\ IF DumpRaises(deco.codec, result)
                             THEN /\ last' =
                                       [ Raised(o, a, DumpError(deco.codec),
                                                {cache_path},
                                                Prefixes(cache_dir), {})
                                         EXCEPT !.opSelf = {o}, !.opArgs = {a},
                                                !.wrote = {cache_path} ]
                                  /\ UNCHANGED populated
                             ELSE /\ last' =
                                       [ NoCall EXCEPT
                                           !.owner = o, !.args = a,
                                           !.snapshot = attrs[o],
                                           !.outcome = "return",
                                           !.value = result,
                                           !.path = {cache_path},
                                           !.opSelf = {o}, !.opArgs = {a},
                                           !.madeDirs = Prefixes(cache_dir),
                                           !.wrote = {cache_path} ]
                                  /\ populated' =
                                       IF cache_path \in DOMAIN populated
                                       THEN populated
                                       ELSE Put(populated, cache_path,
                                                Stored(o, a, result, k,
                                                       invocations'[cache_path]))

\* ---------------------------------------------------------- cache_for_n_calls

\* The values of n the decorator is built with.
NValues == {-2, 0, 1, 2, 3}

\* Python's a % n for n # 0: the result has the sign of n.
PyMod(a, n) ==
    IF n > 0 THEN a % n
    ELSE IF a % (0 - n) = 0 THEN 0 ELSE (a % (0 - n)) + n

NoMemoCall == [ outcome |-> "none", value |-> PyNone, invoked |-> FALSE ]

InitMemo ==
    /\ memo = [ state |-> "none", n |-> 1 ]
    /\ call_count = 0
    /\ cached_result = PyNone
    /\ memoCalls = 0
    /\ memoInvoked = 0
    /\ memoRaised = FALSE
    /\ memoLast = NoMemoCall

\* cache_for_n_calls(n)(func): the decorator checks nothing; it creates the
\* closure with cached_result = None and call_count = 0 for every n.
WrapAccepts(n) == TRUE

CacheForNCalls(n) ==
    /\ memo.state = "none"
    /\ memo' = [ state |-> IF WrapAccepts(n) THEN "wrapped" ELSE "ValueError",
                 n |-> n ]
    /\ call_count' = 0
    /\ cached_result' = PyNone
    /\ UNCHANGED <<memoCalls, memoInvoked, memoRaised, memoLast>>
    /\ UNCHANGED <<durableVars, otherVars>>

\* "While the counter is below n, serve the cached result."
ServesCachedBelowN(count, n) == count < n

\* A test that lets the counter run one past n before it recomputes.
ServesCachedOnePastN(count, n) == PyMod(count, n + 1) # 0

\* if call_count % n != 0
ServesCached(count, n) == PyMod(count, n) # 0

\* The wrapper; `raises` says whether the wrapped operation raises if this
\* call runs it.  The operation's result on its j-th run is j (the test's
\* f"result_{call_count}").
MemoWrapper(raises) ==
    /\ memo.state = "wrapped"
    /\ memoCalls < MaxMemoCalls
    /\ memoCalls' = memoCalls + 1
    /\ UNCHANGED memo
    /\ UNCHANGED <<durableVars, otherVars>>
    /\ IF memo.n = 0
       THEN \* call_count % 0 raises ZeroDivisionError
            /\ memoLast' = [ outcome |-> "raise",
                             value |-> Exc("ZeroDivisionError"),
                             invoked |-> FALSE ]
            /\ UNCHANGED <<call_count, cached_result, memoInvoked, memoRaised>>
       ELSE IF ServesCached(call_count, memo.n)
       THEN /\ call_count' = call_count + 1
            /\ memoLast' = [ outcome |-> "return", value |-> cached_result,
                             invoked |-> FALSE ]
            /\ UNCHANGED <<cached_result, memoInvoked, memoRaised>>
       ELSE /\ call_count' = 1
            /\ memoInvoked' = memoInvoked + 1
            /\ IF raises
               THEN /\ memoRaised' = TRUE
                    /\ memoLast' = [ outcome |-> "raise",
                                     value |-> Exc("OperationError"),
                                     invoked |-> TRUE ]
                    /\ UNCHANGED cached_result
               ELSE /\ cached_result' = PyInt(memoInvoked + 1)
                    /\ memoLast' = [ outcome |-> "return",
                                     value |-> PyInt(memoInvoked + 1),
                                     invoked |-> TRUE ]
                    /\ UNCHANGED memoRaised

\* ------------------------------------------------------------ specifications

\* The codecs: two owners with equal attributes, every result the operation
\* may produce, both decorators, one template.
InitCodec ==
    /\ attrs = [o \in Owners |-> DictBV]
    /\ InitDurable
    /\ InitMemo
    /\ InitOther

NextCodec ==
    \/ \E c \in Codecs, f \in {{}, {CustomFilename}} :
          Decorate(c, TemplateVersion, f)
    \/ \E o \in Owners, a \in Args, r \in OpOutcomes : Wrapper(o, a, r)

SpecCodec == InitCodec /\ [][NextCodec]_vars

\* The keys: owners with differing and changing attributes, both templates,
\* an operation whose result names its owner.
InitKeys ==
    /\ attrs \in InitialAttrs
    /\ InitDurable
    /\ InitMemo
    /\ InitOther

NextKeys ==
    \/ \E c \in Codecs, t \in Templates : Decorate(c, t, {})
    \/ \E o \in Owners, n \in AttrNames : \E x \in ValuesOf(n) : SetAttr(o, n, x)
    \/ \E o \in Owners, a \in Args : Wrapper(o, a, OwnResult(o))

SpecKeys == InitKeys /\ [][NextKeys]_vars

\* The count-based memo alone.
InitMemoOnly ==
    /\ attrs = [o \in Owners |-> DictBV]
    /\ InitDurable
    /\ InitMemo
    /\ InitOther

NextMemo ==
    \/ \E n \in NValues : CacheForNCalls(n)
    \/ \E raises \in BOOLEAN : MemoWrapper(raises)

SpecMemo == InitMemoOnly /\ [][NextMemo]_vars

\* ------------------------------------- cache_for_n_calls on a class's methods

\* A class body decorates its methods once, when the class statement runs:
\* class TradingBot has get_portfolio_balance under @cache_for_n_calls(2);
\* get_positions stands for a second method decorated separately.  Every
\* instance of the class calls the same wrapper, which receives the instance
\* as args[0] and keeps call_count and cached_result in the decoration's
\* closure.
Funcs == {"get_portfolio_balance", "get_positions"}
Instances == {"bot1", "bot2"}
ClassNValues == {1, 2, 3}
MaxClassCalls == 4

\* What the method computes on its j-th run, on the instance it is given.
ResultFor(self, j) == PyTuple(<<PyStr(self), PyInt(j)>>)

\* cache_for_n_calls(n)(func), run by the class body for the method func.
DecorateMethod(func, n) ==
    /\ func \notin DOMAIN closures
    /\ closures' =
         Put(closures, func,
             [ n |-> n, call_count |-> 0, cached_result |-> PyNone,
               invoked |-> 0,
               callsBy |-> [s \in Instances |-> 0],
               runsFor |-> [s \in Instances |-> 0] ])
    /\ UNCHANGED <<closureCalls, closureLast>>
    /\ UNCHANGED <<durableVars, memoVars, logVars, threadVars, fsVars>>

\* instance.func(): the wrapper of func called with self = instance.
MethodCall(func, self, raises) ==
    /\ func \in DOMAIN closures
    /\ closureCalls < MaxClassCalls
    /\ closureCalls' = closureCalls + 1
    /\ UNCHANGED <<durableVars, memoVars, logVars, threadVars, fsVars>>
    /\ LET c == closures[func]
           counted == [ c EXCEPT !.callsBy[self] = @ + 1 ]
       IN  IF ServesCached(c.call_count, c.n)
           THEN /\ closures' =
                     [ closures EXCEPT ![func] =
                         [ counted EXCEPT !.call_count = @ + 1 ] ]
                /\ closureLast' =
                     [ func |-> func, self |-> self, outcome |-> "return",
                       value |-> c.cached_result, invoked |-> FALSE ]
           ELSE LET ran == [ counted EXCEPT !.call_count = 1,
                                            !.invoked = @ + 1,
                                            !.runsFor[self] = @ + 1 ]
                IN  IF raises
                    THEN /\ closures' = [ closures EXCEPT ![func] = ran ]
                         /\ closureLast' =
                              [ func |-> func, self |-> self,
                                outcome |-> "raise",
                                value |-> Exc("OperationError"),
                                invoked |-> TRUE ]
                    ELSE /\ closures' =
                              [ closures EXCEPT ![func] =
                                  [ ran EXCEPT !.cached_result =
                                        ResultFor(self, ran.invoked) ] ]
                         /\ closureLast' =
                              [ func |-> func, self |-> self,
                                outcome |-> "return",
                                value |-> ResultFor(self, ran.invoked),
                                invoked |-> TRUE ]

\* A class with two decorated methods and two instances.
InitClassOnly ==
    /\ attrs = [o \in Owners |-> DictBV]
    /\ InitDurable
    /\ InitMemo
    /\ InitOther

NextClass ==
    \/ \E f \in Funcs, n \in ClassNValues : DecorateMethod(f, n)
    \/ \E f \in Funcs, s \in Instances, raises \in BOOLEAN :
          MethodCall(f, s, raises)

SpecClass == InitClassOnly /\ [][NextClass]_vars

\* ------------------------------------ the durable store and the file system

\* The cache files live in an ordinary directory tree: between two calls an
\* operator may delete a cache file, a file that the codec cannot decode may
\* be put at a cache path, and the process may die while the wrapper is
\* writing.

Remove(f, key) == [k \in DOMAIN f \ {key} |-> f[k]]

\* A file whose bytes are not a complete document of either codec.
CorruptFile == <<"corrupt">>

\* The files that something other than the wrapper may leave at the cache
\* path of a decorator with this codec: garbage, or a file of the other
\* codec's format.
UndecodableFiles(codec) ==
    { CorruptFile,
      IF codec = "json" THEN PickleFile(PyNone) ELSE JsonFile(JNull) }

\* The paths the decorated method's calls resolve to.
CachePaths ==
    { CachePath(deco.template, deco.codec, attrs[o]) :
        o \in { x \in Owners : ~FormatRaises(deco.template, attrs[x]) } }

\* rm <cache file>, by an operator.
ExternalDelete(path) ==
    /\ deco.state = "wrapped"
    /\ path \in CachePaths
    /\ path \in DOMAIN files
    /\ files' = Remove(files, path)
    /\ populated' = IF path \in DOMAIN populated
                    THEN Remove(populated, path) ELSE populated
    /\ external' = Put(external, path, [ event |-> "deleted", after |-> calls ])
    /\ UNCHANGED <<attrs, setCount, deco, dirs, calls, last, invocations>>
    /\ UNCHANGED <<memoVars, classVars, logVars, threadVars>>

\* Something other than the wrapper leaves an undecodable file at the path.
ExternalWrite(path, content) ==
    /\ deco.state = "wrapped"
    /\ path \in CachePaths
    /\ path \notin dirs
    /\ content \in UndecodableFiles(deco.codec)
    /\ ~(path \in DOMAIN files /\ files[path] = content)
    /\ files' = Put(files, path, content)
    /\ dirs' = dirs \cup Prefixes(SubSeq(path, 1, Len(path) - 1))
    /\ populated' = IF path \in DOMAIN populated
                    THEN Remove(populated, path) ELSE populated
    /\ external' = Put(external, path, [ event |-> "replaced", after |-> calls ])
    /\ UNCHANGED <<attrs, setCount, deco, calls, last, invocations>>
    /\ UNCHANGED <<memoVars, classVars, logVars, threadVars>>

\* A write that goes to a temporary file, renamed over the cache path once
\* complete: until then the cache path is untouched.
OpenTemporary(path) == files

\* open(cache_path, 'w') / open(cache_path, 'wb'): the file is created, or
\* emptied, before anything is written to it.
OpenForWriting(path) == Put(files, path, TruncatedFile)

\* A call on the miss path during which the process dies after open() and
\* before the dump has written the whole entry.
CrashDuringWrite(o, a, outcome) ==
    /\ deco.state = "wrapped"
    /\ calls < MaxCalls
    /\ outcome # OpRaises
    /\ ~FormatRaises(deco.template, attrs[o])
    /\ LET cache_dir == CacheDir(deco.template, attrs[o])
           cache_path == CachePath(deco.template, deco.codec, attrs[o])
       IN  /\ ~MakedirsRaises(cache_dir)
           /\ ~Exists(cache_path)
           /\ dirs' = Makedirs(cache_dir)
           /\ invocations' = Put(invocations, cache_path,
                                 Count(invocations, cache_path) + 1)
           /\ files' = OpenForWriting(cache_path)
           /\ last' = [ NoCall EXCEPT
                          !.owner = o, !.args = a, !.snapshot = attrs[o],
                          !.outcome = "crash", !.path = {cache_path},
                          !.opSelf = {o}, !.opArgs = {a},
                          !.madeDirs = Prefixes(cache_dir),
                          !.wrote = {cache_path} ]
    /\ calls' = calls + 1
    /\ UNCHANGED <<attrs, setCount, deco, populated>>
    /\ UNCHANGED <<memoVars, otherVars>>

\* What the operation does in these runs: returns a map, a null, a value
\* that neither codec can encode, or raises.
OperatorOutcomes ==
    { PyDict(<< <<PyStr("price"), PyInt(100)>> >>), PyNone, PyFunction,
      OpRaises }

InitOperator ==
    /\ attrs = [o \in Owners |-> DictBV]
    /\ InitDurable
    /\ InitMemo
    /\ InitOther

NextOperator ==
    \/ \E c \in Codecs : Decorate(c, TemplateVersion, {})
    \/ \E o \in Owners, a \in Args, r \in OperatorOutcomes : Wrapper(o, a, r)
    \/ \E o \in Owners, a \in Args, r \in OperatorOutcomes :
          CrashDuringWrite(o, a, r)
    \/ \E o \in Owners :
          ExternalDelete(CachePath(deco.template, deco.codec, attrs[o]))
    \/ \E o \in Owners, c \in UndecodableFiles(deco.codec) :
          ExternalWrite(CachePath(deco.template, deco.codec, attrs[o]), c)

SpecOperator == InitOperator /\ [][NextOperator]_vars

\* ------------------------------------------------------------- logger.py

\* A handler object: its class, the file it writes to (a path; none for a
\* console handler), its formatter, and the call that created it, which
\* gives the object its identity.
Handler(kind, file, formatter, made) ==
    [ kind |-> kind, file |-> file, formatter |-> formatter, made |-> made ]

\* logging.Formatter("%(asctime)s - %(levelname)s - %(message)s")
StandardFormatter == "asctime - levelname - message"
NoFormatter == "None"

MaxLogCalls == 4

\* The log_file arguments: empty, a bare file name, files one and two
\* directories down, and a name that ends in a separator.
LogFiles ==
    { <<>>,
      <<"app.log">>,
      <<"logs", "/", "app.log">>,
      <<"logs", "/", "b.log">>,
      <<"logs", "/", "app", "/", "test.log">>,
      <<"logs", "/">> }

\* os.path.dirname(log_file): the text before the last separator, without
\* its trailing separators unless it consists of separators only.
LastSep(text) ==
    IF \E i \in DOMAIN text : text[i] = Sep
    THEN CHOOSE i \in DOMAIN text :
            text[i] = Sep /\ \A j \in DOMAIN text : text[j] = Sep => j <= i
    ELSE 0

RECURSIVE RStrip(_)
RStrip(text) ==
    IF text # <<>> /\ text[Len(text)] = Sep
    THEN RStrip(SubSeq(text, 1, Len(text) - 1))
    ELSE text

Dirname(text) ==
    LET head == SubSeq(text, 1, LastSep(text))
    IN  IF RStrip(head) = <<>> THEN head ELSE RStrip(head)

\* isinstance(h, WatchedFileHandler)
IsWatched(h) == h.kind = "WatchedFileHandler"

\* [h for h in handlers if not isinstance(h, WatchedFileHandler)]
WithoutWatched(hs) == SelectSeq(hs, LAMBDA h : ~IsWatched(h))

\* get_formatter(logger, logging.StreamHandler): the formatter of the first
\* handler that is a StreamHandler; FileHandler and WatchedFileHandler are
\* subclasses of StreamHandler.
GetFormatter(hs) == IF hs = <<>> THEN NoFormatter ELSE hs[1].formatter

\* setup_logging(): one more console handler on the logger "runtime".
\* (It also replaces sys.stdout and sys.stderr, which hold no handler.)
SetupLogging ==
    /\ logCalls < MaxLogCalls
    /\ logCalls' = logCalls + 1
    /\ handlers' = Append(handlers,
                          Handler("StreamHandler", <<>>, StandardFormatter,
                                  logCalls + 1))
    /\ logLast' = [ call |-> "setup_logging", path |-> <<>>,
                    outcome |-> "return", before |-> handlers ]
    /\ UNCHANGED <<durableVars, memoVars, classVars, threadVars, fsVars>>

LogRaised(log_file, name) ==
    /\ logLast' = [ call |-> "configure_stream", path |-> log_file,
                    outcome |-> name, before |-> handlers ]
    /\ UNCHANGED <<handlers, dirs, files>>

\* if not log_file: raise ValueError
RejectsPath(log_file) == log_file = <<>>

\* configure_stream(runtime_logger, log_file) on the logger "runtime".
ConfigureStream(log_file) ==
    /\ logCalls < MaxLogCalls
    /\ logCalls' = logCalls + 1
    /\ UNCHANGED <<attrs, setCount, deco, calls, last, populated, invocations>>
    /\ UNCHANGED <<memoVars, classVars, threadVars, fsVars>>
    /\ IF RejectsPath(log_file)
       THEN LogRaised(log_file, "ValueError")
       ELSE
       LET log_directory == Dirname(log_file)
       IN  IF log_directory = <<>>
           THEN \* os.makedirs("", exist_ok=True)
                LogRaised(log_file, "FileNotFoundError")
           ELSE IF MakedirsRaises(Path(log_directory))
           THEN LogRaised(log_file, "FileExistsError")
           ELSE IF log_file[Len(log_file)] = Sep
                   \/ Path(log_file) \in Makedirs(Path(log_directory))
           THEN \* WatchedFileHandler(log_file) opens a directory
                /\ logLast' = [ call |-> "configure_stream",
                                path |-> log_file,
                                outcome |-> "IsADirectoryError",
                                before |-> handlers ]
                /\ dirs' = Makedirs(Path(log_directory))
                /\ UNCHANGED <<handlers, files>>
           ELSE /\ dirs' = Makedirs(Path(log_directory))
                /\ files' = IF Path(log_file) \in DOMAIN files THEN files
                            ELSE Put(files, Path(log_file), <<"log">>)
                /\ handlers' =
                     Append(WithoutWatched(handlers),
                            Handler("WatchedFileHandler", Path(log_file),
                                    GetFormatter(handlers), logCalls + 1))
                /\ logLast' = [ call |-> "configure_stream",
                                path |-> log_file, outcome |-> "return",
                                before |-> handlers ]

InitLogger ==
    /\ attrs = [o \in Owners |-> DictBV]
    /\ InitDurable
    /\ InitMemo
    /\ InitOther

NextLogger ==
    \/ SetupLogging
    \/ \E f \in LogFiles : ConfigureStream(f)

SpecLogger == InitLogger /\ [][NextLogger]_vars

\* ------------------------------- two concurrent callers, dynamic_cache_to_json

\* Two threads call the wrapper of dynamic_cache_to_json at the same time.
\* The wrapper holds no lock, so a thread may be suspended between any two
\* of its statements: the existence test (line 38), the call of the
\* operation (line 43), open(cache_path, 'w') (line 46), and json.dump with
\* the close that ends the with block (line 47).  For an entry that fits the
\* file object's buffer, the text reaches the file in one write when the
\* file is closed, at the offset of that thread's own file object, which is
\* 0 whatever other threads have written meanwhile.
Callers == {"t1", "t2"}

\* What the operation returns to a caller: texts of 1, 4 and 6 characters.
RaceResults == { PyInt(1), PyNone, PyList(<<PyInt(1), PyInt(2)>>) }

RECURSIVE JsonTextLen(_)
RECURSIVE JsonTextLenSum(_, _)

\* The length of the text json.dump writes for a document, with the default
\* separators ", " and ": ".
JsonTextLen(d) ==
    CASE d[1] = "null" -> 4
      [] d[1] = "boolean" -> (IF d[2] THEN 4 ELSE 5)
      [] d[1] = "number" -> Len(IntText(d[2]))
      [] d[1] = "string" -> Len(d[2]) + 2
      [] d[1] = "array" ->
            IF d[2] = <<>> THEN 2
            ELSE 2 + JsonTextLenSum(d[2], FALSE) + 2 * (Len(d[2]) - 1)
      [] d[1] = "object" ->
            IF d[2] = <<>> THEN 2
            ELSE 2 + JsonTextLenSum(d[2], TRUE) + 2 * (Len(d[2]) - 1)

\* The summed lengths of an array's items, or of an object's "key": value
\* members.
JsonTextLenSum(xs, members) ==
    IF xs = <<>> THEN 0
    ELSE (IF members
          THEN Len(Head(xs)[1]) + 4 + JsonTextLen(Head(xs)[2])
          ELSE JsonTextLen(Head(xs)))
         + JsonTextLenSum(Tail(xs), members)

\* The file after a shorter text has been written at offset 0 over a longer
\* one: the new text followed by the rest of the old one.
MixedFile(new, old) == <<"mixed", new, old>>

\* A write that replaces the file's content whatever was there.
WriteReplacing(old, doc) == JsonFile(doc)

\* The write of a whole document at offset 0 of a file opened with 'w' and
\* since written by nobody (empty), or by another thread.
WriteAtStart(old, doc) ==
    IF old[1] = "json" /\ JsonTextLen(doc) < JsonTextLen(old[2])
    THEN MixedFile(doc, old[2])
    ELSE JsonFile(doc)

RaceStart(o, a) ==
    [ pc |-> "check", owner |-> o, args |-> a, result |-> {},
      outcome |-> "none", value |-> PyNone ]

RacePath(t) ==
    CachePath(deco.template, deco.codec, attrs[threads[t].owner])

\* Lines 28-38: resolve the key, ensure the directory, test for the file.
RaceCheck(t) ==
    /\ threads[t].pc = "check"
    /\ dirs' = Makedirs(CacheDir(deco.template, attrs[threads[t].owner]))
    /\ threads' = [ threads EXCEPT ![t].pc =
                      IF Exists(RacePath(t)) THEN "load" ELSE "invoke" ]
    /\ ghost' = Append(ghost, <<t, IF Exists(RacePath(t)) THEN "hit" ELSE "miss">>)
    /\ UNCHANGED <<attrs, setCount, deco, files, calls, last, populated,
                   invocations>>
    /\ UNCHANGED <<memoVars, classVars, logVars, fsVars>>

\* Lines 39-40: with open(cache_path) as file: return json.load(file)
RaceLoad(t) ==
    /\ threads[t].pc = "load"
    /\ threads' =
         [ threads EXCEPT ![t] =
             [ @ EXCEPT !.pc = "done",
                        !.outcome =
                            IF LoadRaises(deco.codec, files[RacePath(t)])
                            THEN "raise" ELSE "return",
                        !.value = Load(deco.codec, files[RacePath(t)], 0) ] ]
    /\ ghost' = Append(ghost, <<t, "load">>)
    /\ UNCHANGED durableVars
    /\ UNCHANGED <<memoVars, classVars, logVars, fsVars>>

\* Line 43: result = func(self, *args, **kwargs)
RaceInvoke(t, result) ==
    /\ threads[t].pc = "invoke"
    /\ threads' = [ threads EXCEPT ![t].pc = "open", ![t].result = {result} ]
    /\ invocations' = Put(invocations, RacePath(t),
                          Count(invocations, RacePath(t)) + 1)
    /\ ghost' = Append(ghost, <<t, "invoke">>)
    /\ UNCHANGED <<attrs, setCount, deco, dirs, files, calls, last, populated>>
    /\ UNCHANGED <<memoVars, classVars, logVars, fsVars>>

\* Line 46: with open(cache_path, 'w') as file
RaceOpen(t) ==
    /\ threads[t].pc = "open"
    /\ threads' = [ threads EXCEPT ![t].pc = "dump" ]
    /\ files' = OpenForWriting(RacePath(t))
    /\ ghost' = Append(ghost, <<t, "open">>)
    /\ UNCHANGED <<attrs, setCount, deco, dirs, calls, last, populated,
                   invocations>>
    /\ UNCHANGED <<memoVars, classVars, logVars, fsVars>>

\* Lines 47-49: json.dump(result, file), the close at the end of the with
\* block, and return result.
RaceDump(t) ==
    /\ threads[t].pc = "dump"
    /\ \E result \in threads[t].result :
          /\ files' = Put(files, RacePath(t),
                          WriteAtStart(files[RacePath(t)], JsonEncode(result)))
          /\ threads' = [ threads EXCEPT ![t] =
                            [ @ EXCEPT !.pc = "done", !.outcome = "return",
                                       !.value = result ] ]
    /\ ghost' = Append(ghost, <<t, "dump">>)
    /\ UNCHANGED <<attrs, setCount, deco, dirs, calls, last, populated,
                   invocations>>
    /\ UNCHANGED <<memoVars, classVars, logVars, fsVars>>

\* The method is decorated with dynamic_cache_to_json; both callers' owners
\* resolve to the same key; no cache file exists.
InitRace ==
    /\ attrs = [o \in Owners |-> DictBV]
    /\ setCount = 0
    /\ deco = [ NotDecorated EXCEPT !.state = "wrapped" ]
    /\ dirs = {}
    /\ files = <<>>
    /\ calls = 0
    /\ last = NoCall
    /\ populated = <<>>
    /\ invocations = <<>>
    /\ InitMemo
    /\ InitClass
    /\ InitLog
    /\ external = <<>>
    /\ ghost = <<>>
    /\ \E o1, o2 \in Owners, a1, a2 \in Args :
          threads = [ t \in Callers |->
                        IF t = "t1" THEN RaceStart(o1, a1)
                        ELSE RaceStart(o2, a2) ]

NextRace ==
    \/ \E t \in Callers : RaceCheck(t)
    \/ \E t \in Callers : RaceLoad(t)
    \/ \E t \in Callers, r \in RaceResults : RaceInvoke(t, r)
    \/ \E t \in Callers : RaceOpen(t)
    \/ \E t \in Callers : RaceDump(t)

SpecRace == InitRace /\ [][NextRace]_vars

\* ----------------------------------- two concurrent callers, cache_for_n_calls

\* Two threads call one wrapper built by cache_for_n_calls(n).  call_count
\* and cached_result are plain nonlocal variables read and written without a
\* lock, so a thread may be suspended between any two reads or writes of
\* them: the test of line 161, the read and the write of call_count += 1
\* (line 162), the read of line 163, the write of line 166, the call and the
\* write of line 167, and the read of line 168.
MaxThreadCalls == 2
RaceNValues == {2, 3}

MemoIdle == [ pc |-> "idle", made |-> 0, local |-> 0, result |-> {} ]

\* What has happened so far: whether two calls have ever been under way at
\* once, the results of the runs of the operation that have completed, and
\* the values that calls have returned.
NoHistory == [ overlapped |-> FALSE, completed |-> {}, returned |-> {} ]

Overlap(ts) == \A t \in Callers : ts[t].pc # "idle"

MemoStep(t, pc) ==
    /\ threads[t].pc = pc
    /\ UNCHANGED <<memo, memoRaised, memoLast>>
    /\ UNCHANGED <<durableVars, classVars, logVars, fsVars>>

\* A test that sends every call to the recomputation.
RecomputesAlways(count, n) == TRUE

\* not (call_count % n != 0)
Recomputes(count, n) == ~ServesCached(count, n)

\* Line 161: if call_count % n != 0
MemoTest(t) ==
    /\ MemoStep(t, "idle")
    /\ threads[t].made < MaxThreadCalls
    /\ memoCalls' = memoCalls + 1
    /\ threads' = [ threads EXCEPT ![t].made = @ + 1,
                                   ![t].pc = IF Recomputes(call_count, memo.n)
                                             THEN "reset" ELSE "read" ]
    /\ ghost' = [ ghost EXCEPT !.overlapped = @ \/ Overlap(threads') ]
    /\ UNCHANGED <<call_count, cached_result, memoInvoked>>

\* Line 162, first half: read call_count
MemoRead(t) ==
    /\ MemoStep(t, "read")
    /\ threads' = [ threads EXCEPT ![t].pc = "write", ![t].local = call_count ]
    /\ UNCHANGED <<call_count, cached_result, memoCalls, memoInvoked, ghost>>

\* Line 162, second half: call_count = <value read> + 1
MemoWrite(t) ==
    /\ MemoStep(t, "write")
    /\ call_count' = threads[t].local + 1
    /\ threads' = [ threads EXCEPT ![t].pc = "cached" ]
    /\ UNCHANGED <<cached_result, memoCalls, memoInvoked, ghost>>

\* Line 163: return cached_result
MemoReturnCached(t) ==
    /\ MemoStep(t, "cached")
    /\ threads' = [ threads EXCEPT ![t].pc = "idle" ]
    /\ ghost' = [ ghost EXCEPT !.returned = @ \cup {cached_result} ]
    /\ UNCHANGED <<call_count, cached_result, memoCalls, memoInvoked>>

\* Line 166: call_count = 1
MemoReset(t) ==
    /\ MemoStep(t, "reset")
    /\ call_count' = 1
    /\ threads' = [ threads EXCEPT ![t].pc = "invoke" ]
    /\ UNCHANGED <<cached_result, memoCalls, memoInvoked, ghost>>

\* Line 167, right-hand side: func(*args, **kwargs) runs and returns; its
\* j-th run returns j.
MemoInvoke(t) ==
    /\ MemoStep(t, "invoke")
    /\ memoInvoked' = memoInvoked + 1
    /\ threads' = [ threads EXCEPT ![t].pc = "store",
                                   ![t].result = {PyInt(memoInvoked + 1)} ]
    /\ ghost' = [ ghost EXCEPT !.completed = @ \cup {PyInt(memoInvoked + 1)} ]
    /\ UNCHANGED <<call_count, cached_result, memoCalls>>

\* Line 167, assignment: cached_result = <the run's result>
MemoStore(t) ==
    /\ MemoStep(t, "store")
    /\ \E r \in threads[t].result : cached_result' = r
    /\ threads' = [ threads EXCEPT ![t].pc = "return" ]
    /\ UNCHANGED <<call_count, memoCalls, memoInvoked, ghost>>

\* Line 168: return cached_result
MemoReturn(t) ==
    /\ MemoStep(t, "return")
    /\ threads' = [ threads EXCEPT ![t].pc = "idle", ![t].result = {} ]
    /\ ghost' = [ ghost EXCEPT !.returned = @ \cup {cached_result} ]
    /\ UNCHANGED <<call_count, cached_result, memoCalls, memoInvoked>>

\* A wrapper built with n >= 2, not yet called, and two threads about to
\* call it.
InitMemoRace ==
    /\ attrs = [o \in Owners |-> DictBV]
    /\ InitDurable
    /\ \E n \in RaceNValues : memo = [ state |-> "wrapped", n |-> n ]
    /\ call_count = 0
    /\ cached_result = PyNone
    /\ memoCalls = 0
    /\ memoInvoked = 0
    /\ memoRaised = FALSE
    /\ memoLast = NoMemoCall
    /\ InitClass
    /\ InitLog
    /\ external = <<>>
    /\ threads = [ t \in Callers |-> MemoIdle ]
    /\ ghost = NoHistory

NextMemoRace ==
    \/ \E t \in Callers : MemoTest(t)
    \/ \E t \in Callers : MemoRead(t)
    \/ \E t \in Callers : MemoWrite(t)
    \/ \E t \in Callers : MemoReturnCached(t)
    \/ \E t \in Callers : MemoReset(t)
    \/ \E t \in Callers : MemoInvoke(t)
    \/ \E t \in Callers : MemoStore(t)
    \/ \E t \in Callers : MemoReturn(t)

SpecMemoRace == InitMemoRace /\ [][NextMemoRace]_vars

\* ------------------------------------------- cache_to_json / cache_to_pickle

\* The fixed-path decorators take the file's path as it is: nothing is
\* formatted and no directory is created.  One path lies in the working
\* directory, the other in a directory that does not exist.
FixedTexts == { <<"data.json">>, <<"cache", "/", "data.json">> }

\* cache_to_json(path)(func) / cache_to_pickle(path)(func)
CacheToFixedPath(codec, text) ==
    /\ deco.state = "none"
    /\ deco' = [ state |-> "fixed", codec |-> codec,
                 template |-> <<Lit(text)>>, filenameArg |-> {} ]
    /\ UNCHANGED <<attrs, setCount, dirs, files, calls, last, populated,
                   invocations>>
    /\ UNCHANGED <<memoVars, otherVars>>

\* if cached_result: a test that takes every falsy value for a miss.
IsHitIfTruthy(cached) == cached \notin FalsyValues

\* if cached_result is not None
IsHit(cached) == cached # PyNone

\* The wrapper built by cache_to_json / cache_to_pickle, called with the
\* arguments a; `outcome` is what the wrapped function does if this call
\* runs it.
FixedWrapper(a, outcome) ==
    /\ deco.state = "fixed"
    /\ calls < MaxCalls
    /\ calls' = calls + 1
    /\ UNCHANGED <<attrs, setCount, deco, dirs, populated>>
    /\ UNCHANGED <<memoVars, otherVars>>
    /\ LET path == Path(Head(deco.template)[2])
           k == calls + 1
           found == path \in DOMAIN files
           call == [ NoCall EXCEPT !.args = a, !.path = {path},
                                   !.read = IF found THEN {path} ELSE {} ]
       IN  IF found /\ LoadRaises(deco.codec, files[path])
           THEN \* the decode error is not a FileNotFoundError
                /\ last' = [ call EXCEPT !.outcome = "raise",
                                         !.value = Load(deco.codec,
                                                        files[path], k) ]
                /\ UNCHANGED <<files, invocations>>
           ELSE
           LET cached ==
                   IF found THEN Load(deco.codec, files[path], k)
                   ELSE PyNone  \* except FileNotFoundError
           IN  IF IsHit(cached)
               THEN /\ last' = [ call EXCEPT !.outcome = "return",
                                             !.value = cached,
                                             !.hit = TRUE ]
                    /\ UNCHANGED <<files, invocations>>
               ELSE \* result = func(*args, **kwargs)
                    /\ invocations' = Put(invocations, path,
                                          Count(invocations, path) + 1)
                    /\ IF outcome = OpRaises
                       THEN /\ last' = [ call EXCEPT
                                           !.outcome = "raise",
                                           !.value = Exc("OperationError"),
                                           !.opArgs = {a} ]
                            /\ UNCHANGED files
                       ELSE
                       LET result == Materialize(outcome, OpIdentity(k))
                       IN  IF Len(path) > 1
                              /\ SubSeq(path, 1, Len(path) - 1) \notin dirs
                           THEN \* open(path, 'w') in a missing directory
                                /\ last' = [ call EXCEPT
                                               !.outcome = "raise",
                                               !.value =
                                                 Exc("FileNotFoundError"),
                                               !.opArgs = {a} ]
                                /\ UNCHANGED files
                           ELSE /\ files' = Put(files, path,
                                                Dump(deco.codec, result))
                                /\ last' =
                                     IF DumpRaises(deco.codec, result)
                                     THEN [ call EXCEPT
                                              !.outcome = "raise",
                                              !.value = DumpError(deco.codec),
                                              !.opArgs = {a},
                                              !.wrote = {path} ]
                                     ELSE [ call EXCEPT
                                              !.outcome = "return",
                                              !.value = result,
                                              !.opArgs = {a},
                                              !.wrote = {path} ]

NextFixed ==
    \/ \E c \in Codecs, t \in FixedTexts : CacheToFixedPath(c, t)
    \/ \E a \in Args, r \in OpOutcomes : FixedWrapper(a, r)

SpecFixed == InitCodec /\ [][NextFixed]_vars

\* ==================================================================== claims

\* The latest call came after the call that first stored a result at p, and
\* resolved to p.
LaterCallAt(p) ==
    /\ p \in DOMAIN populated
    /\ populated[p].call < calls
    /\ last.path = {p}

\* The data model in which a codec's round trip is the identity.  JSON: null,
\* booleans, numbers, strings, lists and string-keyed maps of such values.
\* pickle: every picklable value compared by content (not an instance, which
\* is equal only to itself).
RECURSIVE JsonNative(_)
JsonNative(v) ==
    CASE v[1] \in {"None", "int", "bool", "str"} -> TRUE
      [] v[1] = "list" -> \A i \in DOMAIN v[2] : JsonNative(v[2][i])
      [] v[1] = "dict" ->
            \A i \in DOMAIN v[2] :
                v[2][i][1][1] = "str" /\ JsonNative(v[2][i][2])
      [] OTHER -> FALSE

RECURSIVE ComparedByContent(_)
ComparedByContent(v) ==
    CASE v[1] \in {"None", "int", "bool", "str"} -> TRUE
      [] v[1] \in {"list", "tuple"} ->
            \A i \in DOMAIN v[2] : ComparedByContent(v[2][i])
      [] v[1] = "dict" ->
            \A i \in DOMAIN v[2] :
                ComparedByContent(v[2][i][1]) /\ ComparedByContent(v[2][i][2])
      [] OTHER -> FALSE

InDataModel(codec, v) ==
    IF codec = "json" THEN JsonNative(v) ELSE ComparedByContent(v)

\* ------------------------------------------------------------------------ C1
\* C1 as stated: once the first call for a path has stored its result, every
\* later call resolving to that path returns a value equal to the one the
\* first call returned, and the operation has run once for that path.
C1_Original ==
    \A p \in DOMAIN populated :
        (LaterCallAt(p) /\ populated[p].runs = 1) =>
            /\ last.outcome = "return"
            /\ last.value = populated[p].value
            /\ invocations[p] = 1

\* C1 (amended): once a call has stored a result for a path, every later
\* call resolving to that path returns without running the operation (its
\* run counter for the path stays where the storing call left it), and the
\* value it returns equals the one the storing call returned whenever that
\* value lies in the codec's data model.
C1_HitSuppressesRecomputation ==
    \A p \in DOMAIN populated :
        LaterCallAt(p) =>
            /\ last.outcome = "return"
            /\ last.hit
            /\ last.opSelf = {}
            /\ invocations[p] = populated[p].runs
            /\ InDataModel(deco.codec, populated[p].value) =>
                   last.value = populated[p].value

\* A later call served from a file that the very first run of the operation
\* for that path filled, returning an equal value.
C1_Witness ==
    \E p \in DOMAIN populated :
        /\ LaterCallAt(p)
        /\ populated[p].runs = 1
        /\ invocations[p] = 1
        /\ last.hit
        /\ last.value = populated[p].value
        /\ last.value # PyNone

\* ------------------------------------------------------------------------ C2
CeilDiv(k, n) == (k + n - 1) \div n

\* C2: for n >= 1, in a run of k calls in which the operation never raised,
\* the operation ran exactly on calls 1, n+1, 2n+1, ... (ceil(k/n) runs) and
\* the latest call returned the result of the most recent run.
C2_CountBasedCycle ==
    (memo.state = "wrapped" /\ memo.n >= 1 /\ ~memoRaised) =>
        /\ memoInvoked = CeilDiv(memoCalls, memo.n)
        /\ memoCalls > 0 =>
              /\ memoLast.outcome = "return"
              /\ memoLast.value = PyInt(memoInvoked)
              /\ memoLast.invoked = ((memoCalls - 1) % memo.n = 0)

\* With n = 3: the seventh call has just recomputed for the third time.
C2_Witness ==
    /\ memo.state = "wrapped" /\ memo.n = 3 /\ ~memoRaised
    /\ memoCalls = 7
    /\ memoInvoked = 3
    /\ memoLast.invoked
    /\ memoLast.value = PyInt(3)

\* ------------------------------------------------------------------------ C3
\* C3 as stated: the file a miss writes decodes to a single object whose only
\* field `value` holds the operation's result.
C3_StoredAsCacheEntry ==
    \A p \in DOMAIN populated :
        files[p] =
            IF deco.codec = "json"
            THEN JsonFile(JObject(<< <<"value",
                                       JsonEncode(populated[p].value)>> >>))
            ELSE PickleFile(PyDict(<< <<PyStr("value"),
                                        PickleEncode(populated[p].value)>> >>))

\* ------------------------------------------------------------------------ C4
\* C4 as stated: when cache_filename is supplied, wrapping succeeds and every
\* cache file is created under that name.
C4_FilenameOverride ==
    deco.filenameArg # {} =>
        /\ deco.state \in {"none", "wrapped"}
        /\ \A p \in DOMAIN files : {p[Len(p)]} = deco.filenameArg

\* ------------------------------------------------------------------------ C5
\* The texts the template's fields take in a mapping that has them all.
Referenced(mapping) ==
    [f \in TemplateFields(deco.template) |-> mapping[f]]

Resolvable(mapping) == TemplateFields(deco.template) \subseteq DOMAIN mapping

HasSeparator(text) == \E i \in DOMAIN text : text[i] = Sep

PlainValues(mapping) ==
    \A f \in TemplateFields(deco.template) : ~HasSeparator(mapping[f])

\* The cache file of a mapping, computed from the template text directly.
FileOf(mapping) ==
    Append(Path(Format(deco.template, mapping)), <<FuncName, Extension(deco.codec)>>)

C6_MissingPlaceholderFailsFirst ==
    [][ ( /\ calls' = calls + 1
          /\ \E f \in TemplateFields(deco.template) :
                f \notin DOMAIN attrs[last'.owner] ) =>
            /\ last'.outcome = "raise"
            /\ last'.value = Exc("KeyError")
            /\ dirs' = dirs
            /\ files' = files
            /\ invocations' = invocations
            /\ last'.opSelf = {} /\ last'.read = {} /\ last'.wrote = {}
      ]_vars

\* Two calls have failed on the missing market_type, and no directory or file
\* exists yet.
C6_Witness ==
    /\ last.outcome = "raise"
    /\ last.value = Exc("KeyError")
    /\ "market_type" \notin DOMAIN last.snapshot
    /\ dirs = {} /\ DOMAIN files = {}
    /\ calls = 2

\* ------------------------------------------------------------------------ C7
\* C7: once a result is stored for a path, every later call on an owner whose
\* attributes resolve to that path returns the value decoded from the stored
\* file, which is still what the storing call wrote, without running the
\* operation, whatever arguments it is called with and whichever owner of
\* equal attributes it is called on.
C7_KeyIgnoresArguments ==
    \A p \in DOMAIN populated :
        LaterCallAt(p) =>
            /\ last.outcome = "return"
            /\ last.hit
            /\ last.opSelf = {} /\ last.opArgs = {}
            /\ files[p] = Dump(deco.codec, populated[p].value)
            /\ last.value = Load(deco.codec, files[p], calls)

\* A hit for other arguments, on another owner, than the storing call's.
C7_Witness ==
    \E p \in DOMAIN populated :
        /\ LaterCallAt(p)
        /\ last.hit
        /\ last.args # populated[p].args
        /\ last.owner # populated[p].owner
        /\ populated[p].value = PyDict(<< <<PyStr("price"), PyInt(100)>> >>)
        /\ last.value = populated[p].value

\* ------------------------------------------------------------------------ C8
\* C8: every call resolves the template against the owner's attributes as
\* they are at that call; when no file exists at the resolved path the call
\* runs the operation and writes the file there, and no call changes a file
\* at any other path.
C8_AttributesReadAtEachCall ==
    [][ ( /\ calls' = calls + 1
          /\ Resolvable(attrs[last'.owner]) ) =>
            LET p == FileOf(attrs[last'.owner])
            IN  /\ last'.path = {p}
                /\ p \notin DOMAIN files =>
                      /\ last'.opSelf = {last'.owner}
                      /\ ~last'.hit
                      /\ p \in DOMAIN files'
                /\ \A q \in DOMAIN files :
                      q # p => (q \in DOMAIN files' /\ files'[q] = files[q])
      ]_vars

\* An owner has called, had an attribute changed, and called again: the second
\* call missed, and both files hold that owner's result.
C8_Witness ==
    /\ setCount = 1
    /\ calls = 2
    /\ last.outcome = "return" /\ ~last.hit
    /\ Cardinality(DOMAIN files) = 2
    /\ \A p \in DOMAIN files :
          /\ populated[p].owner = last.owner
          /\ files[p] = Dump(deco.codec, OwnResult(last.owner))
    /\ \E p \in DOMAIN files : populated[p].snapshot # last.snapshot

\* ------------------------------------------------------------------------ C9
\* C9: after a miss whose operation returned None, 0, False, "", [] or {},
\* every later call resolving to the same path is a hit that returns that
\* same value and does not run the operation.
C9_FalsyResultIsAHit ==
    \A p \in DOMAIN populated :
        (LaterCallAt(p) /\ populated[p].value \in FalsyValues) =>
            /\ last.outcome = "return"
            /\ last.hit
            /\ last.value = populated[p].value
            /\ last.opSelf = {}
            /\ invocations[p] = populated[p].runs

\* A hit that returned None.
C9_Witness ==
    \E p \in DOMAIN populated :
        /\ LaterCallAt(p)
        /\ populated[p].value = PyNone
        /\ last.hit
        /\ last.value = PyNone

\* ----------------------------------------------------------------------- C10
\* C10 as stated: cache_for_n_calls(n) with n <= 0 fails when the decorator is
\* built or applied, so no wrapper exists for a non-positive n.
C10_NonPositiveNRejectedAtWrap ==
    memo.state = "wrapped" => memo.n >= 1

\* ----------------------------------------------------------------------- C11
\* C11 as stated: the memo state is not shared across instances or across
\* operations.  Each instance's calls alone decide when the method runs for
\* it (it runs for an instance at least once in each window of n of that
\* instance's own calls), every value a call through
\* an instance returns was computed on that instance, and a call through one
\* decorated method leaves the closure of every other decorated method as it
\* was.
C11_NotSharedAcrossInstances ==
    /\ \A f \in DOMAIN closures : \A s \in Instances :
          closures[f].runsFor[s] >=
              CeilDiv(closures[f].callsBy[s], closures[f].n)
    /\ (closureLast.outcome = "return" /\ closureLast.value # PyNone) =>
          closureLast.value[2][1] = PyStr(closureLast.self)

\* The part of C11 about operations: a call through one decorated method
\* leaves the closure of every other decorated method as it was.
C11_NotSharedAcrossOperations ==
    [][ \A f \in DOMAIN closures :
          (closureCalls' = closureCalls + 1 /\ closureLast'.func # f) =>
             closures'[f] = closures[f] ]_vars

\* Two instances have called the same decorated method with n = 2: the first
\* made the method run, the second was served the first one's result.
C11_SharedAcrossInstances ==
    /\ closureLast.outcome = "return"
    /\ ~closureLast.invoked
    /\ closureLast.value # PyNone
    /\ closureLast.value[2][1] # PyStr(closureLast.self)
    /\ closures[closureLast.func].callsBy[closureLast.self] = 1

\* A step that is one call through the wrapper, resolving to path p.
CallAt(p) == calls' = calls + 1 /\ last'.path = {p}

DecodeError(codec) ==
    Exc(IF codec = "json" THEN "JSONDecodeError" ELSE "UnpicklingError")

\* ----------------------------------------------------------------------- C12
\* C12: whenever a call resolves to a path at which a file exists that the
\* codec cannot decode, the call raises the decode error, the operation is
\* not run, and the file system is left exactly as it was (the file neither
\* deleted nor rewritten); the file being unchanged, every later call
\* resolving to that path meets the same file and fails the same way.
C12_UndecodableFilePropagates ==
    [][ \A p \in DOMAIN files :
          (CallAt(p) /\ LoadRaises(deco.codec, files[p])) =>
             /\ last'.outcome = "raise"
             /\ last'.value = DecodeError(deco.codec)
             /\ last'.opSelf = {}
             /\ invocations' = invocations
             /\ files' = files
             /\ LoadRaises(deco'.codec, files'[p]) ]_vars

\* Two calls in a row have failed with the decode error on a file that
\* something other than the wrapper put at the cache path, and the operation
\* has never run.
C12_Witness ==
    /\ calls >= 2
    /\ last.outcome = "raise"
    /\ last.value = DecodeError(deco.codec)
    /\ \E p \in last.path :
          /\ p \in DOMAIN files
          /\ files[p] \in UndecodableFiles(deco.codec)
          /\ Count(invocations, p) = 0

\* The latest thing done from outside to the file at p was its deletion, and
\* no call has been made since.
DeletedLast(p) ==
    /\ p \in DOMAIN external
    /\ external[p] = [ event |-> "deleted", after |-> calls ]
    /\ p \notin DOMAIN files

\* ----------------------------------------------------------------------- C13
\* C13: no call deletes, truncates or rewrites a file that exists; a file
\* that a call stored and that nothing outside the store has touched since
\* holds what that (first) storing call wrote; and the call that follows an
\* external deletion of the file at its path is a miss that runs the
\* operation again.
C13_NeverInvalidatedByTheStore ==
    [][ /\ calls' = calls + 1 =>
              \A p \in DOMAIN files : p \in DOMAIN files' /\ files'[p] = files[p]
        /\ \A p \in DOMAIN populated' :
              /\ p \in DOMAIN files'
              /\ files'[p] = Dump(deco'.codec, populated'[p].value)
        /\ \A p \in DOMAIN populated :
              (calls' = calls + 1) => populated'[p] = populated[p]
        /\ \A p \in DOMAIN external :
              (DeletedLast(p) /\ CallAt(p)) =>
                 /\ ~last'.hit
                 /\ last'.read = {}
                 /\ last'.opSelf = {last'.owner}
                 /\ invocations'[p] = Count(invocations, p) + 1 ]_vars

\* A call stored a result, a second call was served from the file, an
\* operator then deleted the file, and the third call ran the operation a
\* second time and stored its result again.
C13_Witness ==
    /\ last.outcome = "return"
    /\ ~last.hit
    /\ calls = 3
    /\ \E p \in last.path :
          /\ p \in DOMAIN external
          /\ external[p] = [ event |-> "deleted", after |-> 2 ]
          /\ p \in DOMAIN populated
          /\ populated[p].call = 3
          /\ populated[p].runs = 2
          /\ files[p] = Dump(deco.codec, last.value)

\* ----------------------------------------------------------------------- C20
\* C20: a call that opened the cache file for writing and did not complete
\* the entry (the process died, or the dump raised) leaves a truncated file
\* at the cache path; every call that then resolves to that path finds the
\* file, takes the hit path, fails with the decode error, does not run the
\* operation, and leaves the truncated file in place.
C20_WriteNotAtomic ==
    [][ /\ \A p \in last'.wrote :
              (calls' = calls + 1 /\ last'.outcome \in {"crash", "raise"}) =>
                 /\ p \in DOMAIN files'
                 /\ files'[p] = TruncatedFile
        /\ \A p \in DOMAIN files :
              (CallAt(p) /\ files[p] = TruncatedFile) =>
                 /\ last'.read = {p}
                 /\ last'.outcome = "raise"
                 /\ last'.value = DecodeError(deco.codec)
                 /\ last'.opSelf = {}
                 /\ invocations' = invocations
                 /\ files'[p] = TruncatedFile ]_vars

\* The process died while writing the first entry; two later calls have both
\* failed in decode on the truncated file, and the operation has not run
\* again.
C20_Witness ==
    /\ calls = 3
    /\ last.outcome = "raise"
    /\ last.value = DecodeError(deco.codec)
    /\ \E p \in last.path :
          /\ last.read = {p}
          /\ p \in DOMAIN files
          /\ files[p] = TruncatedFile
          /\ invocations[p] = 1
          /\ p \notin DOMAIN external

\* The directory part of a file's path.
Parent(p) == SubSeq(p, 1, Len(p) - 1)

\* A call that resolves to p is a miss: the directory can be ensured and
\* nothing exists at p.
MissAt(p) == CallAt(p) /\ ~MakedirsRaises(Parent(p)) /\ ~Exists(p)

\* ----------------------------------------------------------------------- C14
\* C14: a call that is a miss runs the operation exactly once, on the owner
\* the call was made through and with the call's own arguments; the path it
\* resolved is <directory the template formats to>/<function name>.json under
\* the JSON decorator and .pickle under the pickle decorator; the file at
\* that path then holds the encoded result, and the call returns the result
\* as the operation produced it.
C14_MissComputesStoresReturns ==
    [][ \A p \in last'.path :
          MissAt(p) =>
             /\ last'.opSelf = {last'.owner}
             /\ last'.opArgs = {last'.args}
             /\ invocations'[p] = Count(invocations, p) + 1
             /\ p = Append(Path(Format(deco.template, attrs[last'.owner])),
                           <<FuncName,
                             IF deco.codec = "json" THEN ".json" ELSE ".pickle">>)
             /\ last'.wrote = {p}
             /\ p \in DOMAIN files'
             /\ files'[p] = IF deco.codec = "json"
                            THEN JsonFile(JsonEncode(OwnResult(last'.owner)))
                            ELSE PickleFile(PickleEncode(OwnResult(last'.owner)))
             /\ last'.outcome = "return"
             /\ last'.value = OwnResult(last'.owner) ]_vars

\* A miss under the pickle decorator and the two-field template, made
\* through owner o2 with the argument "ETH".
C14_Witness ==
    /\ deco.codec = "pickle"
    /\ deco.template = TemplateMarket
    /\ last.owner = "o2"
    /\ last.args = "ETH"
    /\ last.opSelf = {"o2"}
    /\ last.outcome = "return"
    /\ \E p \in last.wrote : p[Len(p)] = <<FuncName, ".pickle">>

\* ----------------------------------------------------------------------- C15
\* C15: after a call that returned, the directory its template resolved to
\* and every directory above it exist, and the cache file is in that
\* directory; no call removes a directory; and a call made when the whole
\* tree already exists returns, creates no directory and leaves every file
\* that existed as it was.
C15_MakedirsRecursiveIdempotent ==
    [][ /\ dirs \subseteq dirs'
        /\ \A p \in last'.path :
              (calls' = calls + 1 /\ last'.outcome = "return") =>
                 /\ \A i \in 1..(Len(p) - 1) : SubSeq(p, 1, i) \in dirs'
                 /\ p \in DOMAIN files'
                 /\ Parent(p) = Path(Format(deco.template, attrs[last'.owner]))
        /\ \A p \in last'.path :
              (calls' = calls + 1 /\ Prefixes(Parent(p)) \subseteq dirs) =>
                 /\ last'.outcome = "return"
                 /\ dirs' = dirs
                 /\ \A q \in DOMAIN files : q \in DOMAIN files' /\ files'[q] = files[q]
      ]_vars

\* A hit on a path three directories deep, in a tree an earlier call made.
C15_Witness ==
    /\ last.hit
    /\ last.outcome = "return"
    /\ calls >= 2
    /\ \E p \in last.path :
          /\ Len(p) >= 4
          /\ Prefixes(Parent(p)) \subseteq dirs
          /\ p \in DOMAIN files

\* ----------------------------------------------------------------------- C16
\* What a call numbered k would get from decoding the file at p.
Decoded(p, k) == Load(deco.codec, files[p], k)

\* C16 as stated: for every value the codec accepted (the dump did not
\* raise), decoding the file the store wrote for it yields an equal value.
C16_Original ==
    \A p \in DOMAIN populated :
        /\ p \in DOMAIN files
        /\ ~LoadRaises(deco.codec, files[p])
        /\ Decoded(p, calls + 1) = populated[p].value

\* C16 (amended): for every value the codec accepted, the file the store
\* wrote for it decodes without error; the decoded value equals the stored
\* one whenever that value lies in the codec's data model (JSON: null,
\* booleans, numbers, strings, lists and string-keyed maps of such values;
\* pickle: values compared by content), and a call served from the file
\* returns exactly the decoded value.
C16_RoundTripInDataModel ==
    /\ \A p \in DOMAIN populated :
          /\ p \in DOMAIN files
          /\ ~LoadRaises(deco.codec, files[p])
          /\ InDataModel(deco.codec, populated[p].value) =>
                Decoded(p, calls + 1) = populated[p].value
    /\ \A p \in last.path :
          last.hit => last.value = Decoded(p, calls)

\* Under pickle, a call stored a tuple (a value only pickle gives back
\* unchanged) and a later call was served an equal tuple from the file.
C16_Witness ==
    /\ deco.codec = "pickle"
    /\ last.hit
    /\ last.value = PyTuple(<<PyInt(1), PyInt(2)>>)
    /\ \E p \in last.path :
          /\ p \in DOMAIN populated
          /\ populated[p].value = last.value
          /\ Decoded(p, calls + 1) = last.value

\* ----------------------------------------------------------------------- C17
Watched(hs) == SelectSeq(hs, IsWatched)

\* C17 as stated: after a configure_stream call with a non-empty path the
\* logger carries exactly one WatchedFileHandler, the one that call made for
\* its path, and its other handlers are those it had before the call, in the
\* same order; a call with an empty path raises ValueError and leaves the
\* handler list as it was.
C17_ExactlyOneWatchedFileHandler ==
    logLast.call = "configure_stream" =>
        IF logLast.path = <<>>
        THEN /\ logLast.outcome = "ValueError"
             /\ handlers = logLast.before
        ELSE /\ Len(Watched(handlers)) = 1
             /\ Watched(handlers)[1].file = Path(logLast.path)
             /\ Watched(handlers)[1].made = logCalls
             /\ WithoutWatched(handlers) = WithoutWatched(logLast.before)

\* The part of C17 that the code meets: the same, for the calls that return,
\* and every call that raises leaves the handler list as it was.
C17_OneWatchedFileHandlerOnReturn ==
    logLast.call = "configure_stream" =>
        IF logLast.outcome = "return"
        THEN /\ Len(Watched(handlers)) = 1
             /\ Watched(handlers)[1].file = Path(logLast.path)
             /\ Watched(handlers)[1].made = logCalls
             /\ WithoutWatched(handlers) = WithoutWatched(logLast.before)
        ELSE /\ handlers = logLast.before
             /\ logLast.path = <<>> => logLast.outcome = "ValueError"

\* ----------------------------------------------------------------------- C18
\* The position of a caller's event in the order of what has happened.
When(t, event) ==
    CHOOSE i \in DOMAIN ghost : ghost[i] = <<t, event>>

Happened(t, event) == \E i \in DOMAIN ghost : ghost[i] = <<t, event>>

\* Both callers found no file, ran the operation and wrote, and both calls
\* are over.
BothMissed ==
    /\ \A t \in Callers : threads[t].pc = "done" /\ Happened(t, "dump")

\* The caller whose write completed last, and the other one.
LastWriter ==
    CHOOSE t \in Callers :
        \A u \in Callers : When(u, "dump") <= When(t, "dump")
FirstWriter == CHOOSE t \in Callers : t # LastWriter

ResultOf(t) == CHOOSE r \in threads[t].result : TRUE
RaceFile == files[RacePath(LastWriter)]

SequentialGuarantee ==
    /\ memoInvoked <= CeilDiv(memoCalls, memo.n)
    /\ ghost.returned \subseteq ghost.completed

\* C19: with two callers on one wrapper with n >= 2, the guarantee of
\* sequential use holds as long as no two calls have been under way at once,
\* and it is only with overlapping calls that it is lost; that it is lost
\* then is shown by the state C19_Witness.
C19_UnsafeOnlyWhenConcurrent ==
    ~ghost.overlapped => SequentialGuarantee

\* Overlapping calls have made the operation run more often than once per
\* window of n calls (two callers saw call_count % n = 0 and both ran it),
\* and a call has returned the initial None, which no run produced (it was
\* served while the other caller had reset call_count and not yet stored
\* its result).
C19_Witness ==
    /\ ghost.overlapped
    /\ memo.n >= 2
    /\ memoInvoked > CeilDiv(memoCalls, memo.n)
    /\ PyNone \in ghost.returned
    /\ PyNone \notin ghost.completed

\* ----------------------------------------------------------------------- C21
\* C21 as stated: for n >= 1, call_count is 0 exactly before the first call
\* and between 1 and n after every call; it equals n exactly when the latest
\* call was the last cached call of a window; and a call that ran the
\* operation (it saw call_count % n = 0) has left call_count at 1.
C21_Original ==
    (memo.state = "wrapped" /\ memo.n >= 1) =>
        /\ call_count = 0 <=> memoCalls = 0
        /\ memoCalls >= 1 =>
              /\ 1 <= call_count /\ call_count <= memo.n
              /\ call_count = memo.n <=>
                    (~memoLast.invoked /\ memoCalls % memo.n = 0)
        /\ memoLast.invoked => call_count = 1

\* C21 (amended): for n >= 1, call_count is 0 exactly before the first call;
\* after the k-th call it is ((k - 1) mod n) + 1, so it lies between 1 and n
\* and equals n exactly after the last call of a window (calls n, 2n, ...);
\* for n >= 2 that call is a cached one, for n = 1 it is the recomputing
\* call itself; and a call that ran the operation has left call_count at 1.
C21_CounterInvariant ==
    (memo.state = "wrapped" /\ memo.n >= 1) =>
        /\ call_count = 0 <=> memoCalls = 0
        /\ memoCalls >= 1 =>
              /\ call_count = ((memoCalls - 1) % memo.n) + 1
              /\ 1 <= call_count /\ call_count <= memo.n
              /\ call_count = memo.n <=> memoCalls % memo.n = 0
              /\ (memo.n >= 2 /\ call_count = memo.n) => ~memoLast.invoked
        /\ memoLast.invoked => call_count = 1

\* With n = 3, the sixth call was the last cached call of the second window
\* and left call_count at 3.
C21_Witness ==
    /\ memo.state = "wrapped"
    /\ memo.n = 3
    /\ memoCalls = 6
    /\ call_count = 3
    /\ ~memoLast.invoked
    /\ memoLast.outcome = "return"

\* ----------------------------------------------------------------------- C22
\* C22 as stated, for n >= 1: every value a call returns is the result of a
\* run of the operation that completed, and never one from before a failed run: the
\* j-th run returning j, a call that returns hands back the result of the
\* latest run started, which therefore did not raise.
C22_ReturnsOnlyCompletedResults ==
    (memo.state = "wrapped" /\ memo.n >= 1 /\ memoLast.outcome = "return") =>
        /\ memoLast.value # PyNone
        /\ memoLast.value = PyInt(memoInvoked)

\* The part of C22 that the code meets: as long as no run of the operation
\* has raised, every value returned is the result of the latest run.
C22_HoldsWhileNothingRaised ==
    (memo.state = "wrapped" /\ memo.n >= 1 /\ memoLast.outcome = "return"
       /\ ~memoRaised) =>
        memoLast.value = PyInt(memoInvoked)

\* ----------------------------------------------------------------------- C23
OperationError == Exc("OperationError")

\* C23: a call whose run of the operation raises ends with that exception,
\* changes no file and leaves no file at its path (its directory exists);
\* the call that follows it at the same path is again a miss that runs the
\* operation; and whenever a file appears at a path, it does so in a call
\* that ran the operation for that path and whose run did not raise.
C23_RaisingMissLeavesNoFile ==
    [][ /\ \A p \in last'.path :
              (calls' = calls + 1 /\ last'.opSelf # {}
                 /\ last'.value = OperationError) =>
                 /\ last'.outcome = "raise"
                 /\ files' = files
                 /\ p \notin DOMAIN files'
                 /\ Parent(p) \in dirs'
        /\ \A p \in last.path :
              (last.value = OperationError /\ CallAt(p)) =>
                 /\ ~last'.hit
                 /\ last'.opSelf = {last'.owner}
                 /\ invocations'[p] = invocations[p] + 1
        /\ \A p \in DOMAIN files' \ DOMAIN files :
              /\ last'.path = {p}
              /\ last'.opSelf # {}
              /\ last'.value # OperationError ]_vars

\* The operation raised on two misses in a row for the same path, which
\* still has no file; the directory is there.
C23_Witness ==
    /\ calls = 2
    /\ last.outcome = "raise"
    /\ last.value = OperationError
    /\ \E p \in last.path :
          /\ invocations[p] = 2
          /\ p \notin DOMAIN files
          /\ Parent(p) \in dirs

\* ----------------------------------------------------------------------- C24
\* A step that is one call through the wrapper of a fixed-path cache.
FixedCall == deco.state = "fixed" /\ calls' = calls + 1

\* The file at p holds a document that decodes, to the value v.
DecodesTo(p, v) ==
    /\ p \in DOMAIN files
    /\ ~LoadRaises(deco.codec, files[p])
    /\ Load(deco.codec, files[p], calls + 1) = v

\* The call ran the function once and, if it returned, returned the
\* function's result and left that result's encoding in the file at p.
RanAndStored(p) ==
    /\ ~last'.hit
    /\ last'.opArgs = {last'.args}
    /\ invocations'[p] = Count(invocations, p) + 1
    /\ last'.outcome = "return" =>
          /\ last'.wrote = {p}
          /\ p \in DOMAIN files'
          /\ files'[p] = Dump(deco.codec, last'.value)

\* C24: a call of a fixed-path cache that finds no file, or a file that
\* decodes to null, runs the function and, when it returns, has rewritten
\* the file with the function's result; a call that finds a file decoding
\* to any other value, the falsy ones included, returns that value without
\* running the function and leaves the files as they were; so the call
\* after one that returned null runs the function again.
C24_NullIsAMiss ==
    [][ FixedCall =>
          \A p \in last'.path :
             /\ p \notin DOMAIN files => RanAndStored(p)
             /\ DecodesTo(p, PyNone) => RanAndStored(p)
             /\ (p \in DOMAIN files /\ ~LoadRaises(deco.codec, files[p])
                   /\ ~DecodesTo(p, PyNone)) =>
                   /\ last'.hit
                   /\ last'.outcome = "return"
                   /\ DecodesTo(p, last'.value)
                   /\ last'.opArgs = {}
                   /\ invocations' = invocations
                   /\ files' = files
             /\ (last.outcome = "return" /\ last.value = PyNone) =>
                   RanAndStored(p) ]_vars

\* A function that returns null has been run by each of three calls, the
\* file holding a null after each.
C24_Witness ==
    /\ deco.state = "fixed"
    /\ calls = 3
    /\ last.outcome = "return"
    /\ last.value = PyNone
    /\ \E p \in last.path :
          /\ invocations[p] = 3
          /\ files[p] = Dump(deco.codec, PyNone)

====
